---- MODULE Spec2Model ----
(***************************************************************************)
(* The MD2 hash object of Cryptodome.Hash.MD2 (MD2Hash and the module      *)
(* function new), together with the native engine it delegates to          *)
(* (md2_init, md2_update, md2_digest, md2_copy, md2_destroy).  The Python  *)
(* wrapper is translated from MD2.py.  The native engine is not part of    *)
(* the source tree (only its C declarations are, MD2.py lines 56-67); it   *)
(* is written from the specification's sections 3 and 4, with the          *)
(* permutation table and the round recurrence taken from RFC 1319 as       *)
(* section 9 of the specification directs.                                 *)
(***************************************************************************)
EXTENDS Integers, Sequences, FiniteSets, TLC

(* ------------------------------ bounds -------------------------------- *)

\* The longest message a client feeds to one hash object.
MaxLen == 32

(* ------------------------- program constants -------------------------- *)

\* MD2Hash.digest_size
digest_size == 16

\* The absorb granularity of the engine (bytes per compressed block).
BlockLen == 16

\* The size of the working buffer.
WorkingLen == 48

\* The number of rounds of one compression.
NumRounds == 18

\* The null pointer of a VoidPointer, and the data argument left out.
NULL == 0
None == <<-1>>

(* --------------------------- test messages ---------------------------- *)

\* "abc"
MsgABC == <<97, 98, 99>>

\* "message digest" followed by "abcdefghijklmnopqrstuvwxyz"
MsgLong == <<109, 101, 115, 115, 97, 103, 101, 32, 100, 105, 103, 101, 115, 116,
    97, 98, 99, 100, 101, 102, 103, 104, 105, 106, 107, 108, 109, 110,
    111, 112, 113, 114, 115, 116, 117, 118, 119, 120, 121, 122>>

\* A test message and the places where a client may cut it into chunks:
\* "abc" byte by byte; the long message in chunks of 1, 7 and 16 bytes and
\* what lies between them, around the block boundaries 16 and 32.
TestMsgs ==
  { [bytes |-> MsgABC, cuts |-> {0, 1, 2, 3}],
    [bytes |-> MsgLong, cuts |-> {0, 7, 14, 15, 16, 17, 31, 32, 33}] }

Min(a, b) == IF a < b THEN a ELSE b

IsPrefix(m, t) == Len(m) <= Len(t) /\ SubSeq(t, 1, Len(m)) = m

\* The byte strings a client may pass next when m has been fed so far: a
\* test message that m begins, from where m ends to a cut (or nothing).
Data(m) ==
  UNION { { SubSeq(t.bytes, Len(m) + 1, c) :
              c \in { k \in t.cuts : Len(m) <= k /\ k <= MaxLen } } :
          t \in { u \in TestMsgs : IsPrefix(m, u.bytes) } }

(* ---------------------- the native engine (MD2) ----------------------- *)

\* The permutation table of RFC 1319 (PI_SUBST), index 0 at position 1.
PI_SUBST == <<41, 46, 67, 201, 162, 216, 124, 1, 61, 54, 84, 161, 236, 240, 6, 19,
    98, 167, 5, 243, 192, 199, 115, 140, 152, 147, 43, 217, 188, 76, 130, 202,
    30, 155, 87, 60, 253, 212, 224, 22, 103, 66, 111, 24, 138, 23, 229, 18,
    190, 78, 196, 214, 218, 158, 222, 73, 160, 251, 245, 142, 187, 47, 238, 122,
    169, 104, 121, 145, 21, 178, 7, 63, 148, 194, 16, 137, 11, 34, 95, 33,
    128, 127, 93, 154, 90, 144, 50, 39, 53, 62, 204, 231, 191, 247, 151, 3,
    255, 25, 48, 179, 72, 165, 181, 209, 215, 94, 146, 42, 172, 86, 170, 198,
    79, 184, 56, 210, 150, 164, 125, 182, 118, 252, 107, 226, 156, 116, 4, 241,
    69, 157, 112, 89, 100, 113, 135, 32, 134, 91, 207, 101, 230, 45, 168, 2,
    27, 96, 37, 173, 174, 176, 185, 246, 28, 70, 97, 105, 52, 64, 126, 15,
    85, 71, 163, 35, 221, 81, 175, 58, 195, 92, 249, 206, 186, 197, 234, 38,
    44, 83, 13, 110, 133, 40, 132, 9, 211, 223, 205, 244, 65, 129, 77, 82,
    106, 220, 55, 200, 108, 193, 171, 250, 36, 225, 123, 8, 12, 189, 177, 74,
    120, 136, 149, 139, 227, 99, 232, 109, 233, 203, 213, 254, 59, 0, 29, 57,
    242, 239, 183, 14, 102, 88, 208, 228, 166, 119, 114, 248, 235, 117, 75, 10,
    49, 68, 80, 180, 143, 237, 31, 26, 219, 153, 141, 51, 159, 17, 131, 20>>

\* Bitwise exclusive or of two 4-bit values, as a table: Xor4[a + 1][b + 1].
Xor4 == <<
  <<0, 1, 2, 3, 4, 5, 6, 7, 8, 9, 10, 11, 12, 13, 14, 15>>,
  <<1, 0, 3, 2, 5, 4, 7, 6, 9, 8, 11, 10, 13, 12, 15, 14>>,
  <<2, 3, 0, 1, 6, 7, 4, 5, 10, 11, 8, 9, 14, 15, 12, 13>>,
  <<3, 2, 1, 0, 7, 6, 5, 4, 11, 10, 9, 8, 15, 14, 13, 12>>,
  <<4, 5, 6, 7, 0, 1, 2, 3, 12, 13, 14, 15, 8, 9, 10, 11>>,
  <<5, 4, 7, 6, 1, 0, 3, 2, 13, 12, 15, 14, 9, 8, 11, 10>>,
  <<6, 7, 4, 5, 2, 3, 0, 1, 14, 15, 12, 13, 10, 11, 8, 9>>,
  <<7, 6, 5, 4, 3, 2, 1, 0, 15, 14, 13, 12, 11, 10, 9, 8>>,
  <<8, 9, 10, 11, 12, 13, 14, 15, 0, 1, 2, 3, 4, 5, 6, 7>>,
  <<9, 8, 11, 10, 13, 12, 15, 14, 1, 0, 3, 2, 5, 4, 7, 6>>,
  <<10, 11, 8, 9, 14, 15, 12, 13, 2, 3, 0, 1, 6, 7, 4, 5>>,
  <<11, 10, 9, 8, 15, 14, 13, 12, 3, 2, 1, 0, 7, 6, 5, 4>>,
  <<12, 13, 14, 15, 8, 9, 10, 11, 4, 5, 6, 7, 0, 1, 2, 3>>,
  <<13, 12, 15, 14, 9, 8, 11, 10, 5, 4, 7, 6, 1, 0, 3, 2>>,
  <<14, 15, 12, 13, 10, 11, 8, 9, 6, 7, 4, 5, 2, 3, 0, 1>>,
  <<15, 14, 13, 12, 11, 10, 9, 8, 7, 6, 5, 4, 3, 2, 1, 0>>>>

\* Bitwise exclusive or of two bytes.
XOR(a, b) ==
  16 * Xor4[(a \div 16) + 1][(b \div 16) + 1] + Xor4[(a % 16) + 1][(b % 16) + 1]

\* One step  t = (X[k] ^= PI_SUBST[t])  of a round.  acc holds the carry t
\* followed by the bytes already rewritten, so k = Len(acc).
RoundStep(X, acc) ==
  Append(acc, XOR(X[Len(acc)], PI_SUBST[acc[Len(acc)] + 1]))

RoundSteps4(X, acc) ==
  RoundStep(X, RoundStep(X, RoundStep(X, RoundStep(X, acc))))

RoundSteps16(X, acc) ==
  RoundSteps4(X, RoundSteps4(X, RoundSteps4(X, RoundSteps4(X, acc))))

\* One round over the 48 bytes of the working buffer, entered with carry t.
Round(X, t) == Tail(RoundSteps16(X, RoundSteps16(X, RoundSteps16(X, <<t>>))))

\* Rounds j .. NumRounds-1; the carry into round j+1 is (t + j) mod 256.
\* The test in AfterRound has each round evaluated before the next begins.
RECURSIVE Rounds(_, _, _)
RECURSIVE AfterRound(_, _)
Rounds(X, t, j) ==
  IF j = NumRounds THEN X ELSE AfterRound(Round(X, t), j)

AfterRound(X, j) ==
  IF X[WorkingLen] \in 0..255
  THEN Rounds(X, (X[WorkingLen] + j) % 256, j + 1)
  ELSE X

\* The compression round of one 16-byte block into the working buffer.
Compress(working, block) ==
  Rounds(SubSeq(working, 1, BlockLen) \o block
           \o [k \in 1..BlockLen |-> XOR(block[k], working[k])], 0, 0)

\* One step of the checksum update; acc holds the carry followed by the
\* checksum bytes already rewritten, so the position is Len(acc).
ChecksumStep(checksum, block, acc) ==
  Append(acc, XOR(checksum[Len(acc)],
                  PI_SUBST[XOR(block[Len(acc)], acc[Len(acc)]) + 1]))

ChecksumSteps4(checksum, block, acc) ==
  ChecksumStep(checksum, block, ChecksumStep(checksum, block,
    ChecksumStep(checksum, block, ChecksumStep(checksum, block, acc))))

\* The checksum update of one block; the carry starts at the last checksum
\* byte of the previous block (0 at creation).
Checksum(checksum, block) ==
  Tail(ChecksumSteps4(checksum, block, ChecksumSteps4(checksum, block,
         ChecksumSteps4(checksum, block, ChecksumSteps4(checksum, block,
           <<checksum[BlockLen]>>)))))

Zeros(n) == [k \in 1..n |-> 0]

\* The state md2_init leaves.
ZeroState ==
  [working |-> Zeros(WorkingLen), checksum |-> Zeros(BlockLen),
   buffer |-> <<>>, totalBufferedLen |-> 0]

\* A full buffer is compressed, folded into the checksum, and cleared.
ProcessBlock(hs) ==
  [working |-> Compress(hs.working, hs.buffer),
   checksum |-> Checksum(hs.checksum, hs.buffer),
   buffer |-> <<>>, totalBufferedLen |-> 0]

\* The number of bytes the buffer takes from the input.
Take(hs, bytes) == Min(BlockLen - hs.totalBufferedLen, Len(bytes))

Fill(hs, bytes) ==
  [hs EXCEPT !.buffer = @ \o SubSeq(bytes, 1, Take(hs, bytes)),
             !.totalBufferedLen = @ + Take(hs, bytes)]

Flush(hs) == IF hs.totalBufferedLen = BlockLen THEN ProcessBlock(hs) ELSE hs

\* Absorb: fill the buffer, process it whenever it is full, keep the rest.
RECURSIVE Absorb(_, _)
Absorb(hs, bytes) ==
  IF Len(bytes) = 0 THEN hs
  ELSE Absorb(Flush(Fill(hs, bytes)),
              SubSeq(bytes, Take(hs, bytes) + 1, Len(bytes)))

md2_init == [rc |-> 0, st |-> ZeroState]

md2_update(hs, buf, len) == [rc |-> 0, st |-> Absorb(hs, SubSeq(buf, 1, len))]

\* The padding of digest: padLen bytes of value padLen.
Padding(hs) ==
  [i \in 1..(BlockLen - hs.totalBufferedLen) |-> BlockLen - hs.totalBufferedLen]

\* The scratch clone of digest after the padding has been absorbed.
Padded(hs) == Absorb(hs, Padding(hs))

\* The checksum block: compressed into the working buffer, checksum kept.
FinalBlock(p) == [p EXCEPT !.working = Compress(p.working, p.checksum)]

\* The scratch clone of digest at its end.
Finalized(hs) == FinalBlock(Padded(hs))

md2_digest(hs) ==
  [rc |-> 0, digest |-> SubSeq(Finalized(hs).working, 1, BlockLen)]

md2_copy(src) == [rc |-> 0, dst |-> src]

\* md2_destroy releases the slot of a state.
md2_destroy(hp, p) == [s \in (DOMAIN hp) \ {p} |-> hp[s]]

(* ------------------------ the Python wrapper -------------------------- *)

\* Python's truth value of the data argument: None and b"" are false.
Truthy(data) == data # None /\ Len(data) > 0

\* The end of update: the result code checked, the state written back.
update_result(hp, self, r) ==
  IF r.rc # 0
  THEN [heap |-> hp, err |-> "ValueError"]
  ELSE [heap |-> [hp EXCEPT ![self] = r.st], err |-> "none"]

\* An update that hands the engine one byte less than the data holds.
MD2Hash_update_short(hp, self, data) ==
  update_result(hp, self, md2_update(hp[self], data, Len(data) - 1))

\* An update that initialises the state again before it absorbs.
MD2Hash_update_restart(hp, self, data) ==
  update_result(hp, self, md2_update(md2_init.st, data, Len(data)))

\* MD2Hash.update(data) on the object whose state lives at slot self.
MD2Hash_update(hp, self, data) ==
  update_result(hp, self, md2_update(hp[self], data, Len(data)))

\* The end of __init__: the result code checked, the state stored at slot
\* self (where md2_init allocated it), the data absorbed.
init_result(hp, self, data, r) ==
  IF r.rc # 0
  THEN [heap |-> hp, err |-> "ValueError"]
  ELSE IF Truthy(data)
  THEN MD2Hash_update((self :> r.st) @@ hp, self, data)
  ELSE [heap |-> (self :> r.st) @@ hp, err |-> "none"]

\* MD2Hash.__init__(data)
MD2Hash_init(hp, self, data) == init_result(hp, self, data, md2_init)

\* The end of a digest whose check of the result code is inverted.
digest_result_inverted(hp, r) ==
  IF r.rc = 0
  THEN [heap |-> hp, val |-> <<>>, err |-> "ValueError"]
  ELSE [heap |-> hp, val |-> SubSeq(r.digest, 1, digest_size), err |-> "none"]

\* The end of digest: the result code checked, the buffer of digest_size
\* bytes returned.
digest_result(hp, r) ==
  IF r.rc # 0
  THEN [heap |-> hp, val |-> <<>>, err |-> "ValueError"]
  ELSE [heap |-> hp, val |-> SubSeq(r.digest, 1, digest_size), err |-> "none"]

\* A digest that finalises the state of the object itself, not a clone.
MD2Hash_digest_inplace(hp, self) ==
  digest_result([hp EXCEPT ![self] = Finalized(hp[self])], md2_digest(hp[self]))

\* MD2Hash.digest()
MD2Hash_digest(hp, self) == digest_result(hp, md2_digest(hp[self]))

HexDigits ==
  <<"0", "1", "2", "3", "4", "5", "6", "7",
    "8", "9", "a", "b", "c", "d", "e", "f">>

\* "".join(["%02x" % bord(x) for x in d])
Hex(d) ==
  [i \in 1..(2 * Len(d)) |->
     IF i % 2 = 1 THEN HexDigits[(d[(i + 1) \div 2] \div 16) + 1]
     ELSE HexDigits[(d[i \div 2] % 16) + 1]]

hexdigest_result(d) == [heap |-> d.heap, val |-> Hex(d.val), err |-> d.err]

\* A hexdigest that writes the low half of every byte first.
MD2Hash_hexdigest_swapped(hp, self) ==
  hexdigest_result(
    [heap |-> hp,
     val |-> [i \in 1..digest_size |->
                16 * (MD2Hash_digest(hp, self).val[i] % 16)
                  + (MD2Hash_digest(hp, self).val[i] \div 16)],
     err |-> "none"])

\* MD2Hash.hexdigest()
MD2Hash_hexdigest(hp, self) == hexdigest_result(MD2Hash_digest(hp, self))

\* The end of copy: the state of the clone overwritten by md2_copy.
copy_result(hp, fresh, r) ==
  IF r.rc # 0
  THEN [heap |-> hp, obj |-> NULL, err |-> "ValueError"]
  ELSE [heap |-> [hp EXCEPT ![fresh] = r.dst], obj |-> fresh, err |-> "none"]

copy_clone(clone, self, fresh) ==
  IF clone.err # "none"
  THEN [heap |-> clone.heap, obj |-> NULL, err |-> clone.err]
  ELSE copy_result(clone.heap, fresh, md2_copy(clone.heap[self]))

\* A copy that hands back the object itself.
MD2Hash_copy_alias(hp, self, fresh) ==
  [heap |-> hp, obj |-> self, err |-> "none"]

\* A copy that returns the new clone without the call of md2_copy.
MD2Hash_copy_empty(hp, self, fresh) ==
  [heap |-> MD2Hash_init(hp, fresh, None).heap, obj |-> fresh, err |-> "none"]

\* MD2Hash.copy(): clone = MD2Hash() at slot fresh, then md2_copy.
MD2Hash_copy(hp, self, fresh) ==
  copy_clone(MD2Hash_init(hp, fresh, None), self, fresh)

new_result(n, fresh) ==
  [heap |-> n.heap, obj |-> IF n.err = "none" THEN fresh ELSE NULL,
   err |-> n.err]

\* MD2Hash.new(data): MD2Hash(data), whatever self is.
MD2Hash_new(hp, self, fresh, data) ==
  new_result(MD2Hash_init(hp, fresh, data), fresh)

\* The throwaway instance is released (md2_destroy) when new returns.
new_release(n, tmp) ==
  [heap |-> md2_destroy(n.heap, tmp), obj |-> n.obj, err |-> n.err]

new_throwaway(t, fresh, tmp, data) ==
  IF t.err # "none"
  THEN [heap |-> t.heap, obj |-> NULL, err |-> t.err]
  ELSE new_release(MD2Hash_new(t.heap, tmp, fresh, data), tmp)

\* A module function new that does not pass its data on.
new_without_data(hp, fresh, tmp, data) ==
  new_throwaway(MD2Hash_init(hp, tmp, None), fresh, tmp, None)

\* The module function new(data): MD2Hash().new(data), the throwaway
\* instance at slot tmp.
new(hp, fresh, tmp, data) ==
  new_throwaway(MD2Hash_init(hp, tmp, None), fresh, tmp, data)

(* ------------------------------ the state ----------------------------- *)

\* The client's two variables: one receives a new hash object, the other a
\* copy of it.  The object bound to variable h is allocated at slot h, and
\* slot Tmp serves the throwaway instance of new.
Handles == {1, 2}
Tmp == 3

VARIABLES
  heap,   \* slot -> native state, for the allocated slots
  ref,    \* handle -> slot of the object the variable is bound to, or NULL
  msg,    \* handle -> the bytes fed through it so far (history)
  last,   \* the call that has just returned, or Idle
  ret,    \* the value it returned
  err     \* the exception it raised, or "none"

vars == <<heap, ref, msg, last, ret, err>>

Idle == [op |-> "idle", h |-> NULL, src |-> NULL, data |-> None]

Bytes(data) == IF data = None THEN <<>> ELSE data

Ready == last = Idle /\ err = "none"

Bound(h) == ref[h] # NULL

Unused == \A h \in Handles : ref[h] = NULL

Init ==
  /\ heap = <<>>
  /\ ref = [h \in Handles |-> NULL]
  /\ msg = [h \in Handles |-> <<>>]
  /\ last = Idle
  /\ ret = <<>>
  /\ err = "none"

\* h = MD2Hash(data)
Create(h, data) ==
  /\ Ready /\ Unused
  /\ \E r \in {MD2Hash_init(heap, h, data)} :
        /\ heap' = r.heap
        /\ err' = r.err
        /\ ref' = [ref EXCEPT ![h] = IF r.err = "none" THEN h ELSE NULL]
  /\ msg' = [msg EXCEPT ![h] = Bytes(data)]
  /\ last' = [op |-> "init", h |-> h, src |-> NULL, data |-> data]
  /\ ret' = <<>>

\* h = new(data)
New(h, data) ==
  /\ Ready /\ Unused
  /\ \E r \in {new(heap, h, Tmp, data)} :
        /\ heap' = r.heap
        /\ err' = r.err
        /\ ref' = [ref EXCEPT ![h] = r.obj]
  /\ msg' = [msg EXCEPT ![h] = Bytes(data)]
  /\ last' = [op |-> "new", h |-> h, src |-> NULL, data |-> data]
  /\ ret' = <<>>

\* h.update(data)
Update(h, data) ==
  /\ Ready /\ Bound(h)
  /\ \E r \in {MD2Hash_update(heap, ref[h], data)} :
        heap' = r.heap /\ err' = r.err
  /\ msg' = [msg EXCEPT ![h] = @ \o data]
  /\ last' = [op |-> "update", h |-> h, src |-> NULL, data |-> data]
  /\ ret' = <<>>
  /\ UNCHANGED ref

\* h.digest()
Digest(h) ==
  /\ Ready /\ Bound(h)
  /\ \E r \in {MD2Hash_digest(heap, ref[h])} :
        heap' = r.heap /\ err' = r.err /\ ret' = r.val
  /\ last' = [op |-> "digest", h |-> h, src |-> NULL, data |-> None]
  /\ UNCHANGED <<ref, msg>>

\* h.hexdigest()
HexDigest(h) ==
  /\ Ready /\ Bound(h)
  /\ \E r \in {MD2Hash_hexdigest(heap, ref[h])} :
        heap' = r.heap /\ err' = r.err /\ ret' = r.val
  /\ last' = [op |-> "hexdigest", h |-> h, src |-> NULL, data |-> None]
  /\ UNCHANGED <<ref, msg>>

\* c = h.copy()
Copy(h, c) ==
  /\ Ready /\ Bound(h) /\ ~Bound(c)
  /\ \E r \in {MD2Hash_copy(heap, ref[h], c)} :
        /\ heap' = r.heap
        /\ err' = r.err
        /\ ref' = [ref EXCEPT ![c] = r.obj]
  /\ msg' = [msg EXCEPT ![c] = msg[h]]
  /\ last' = [op |-> "copy", h |-> c, src |-> h, data |-> None]
  /\ ret' = <<>>

\* The client takes the result; the next call may follow.
Return ==
  /\ last # Idle /\ err = "none"
  /\ last' = Idle
  /\ ret' = <<>>
  /\ UNCHANGED <<heap, ref, msg, err>>

Next ==
  \/ \E h \in Handles : \E data \in {None} \cup Data(<<>>) : Create(h, data)
  \/ \E h \in Handles : \E data \in {None} \cup Data(<<>>) : New(h, data)
  \/ \E h \in Handles : \E data \in Data(msg[h]) : Update(h, data)
  \/ \E h \in Handles : Digest(h)
  \/ \E h \in Handles : HexDigest(h)
  \/ \E h \in Handles : \E c \in Handles : Copy(h, c)
  \/ Return

Spec == Init /\ [][Next]_vars

(* --------------------------- reference values ------------------------- *)

\* The state of a hash object freshly created and fed m in one absorb.
FreshFed(m) == md2_update(md2_init.st, m, Len(m)).st

\* The checksum after the full blocks of m, one update per block.
RECURSIVE ChecksumFold(_, _)
ChecksumFold(c, m) ==
  IF Len(m) < BlockLen THEN c
  ELSE ChecksumFold(Checksum(c, SubSeq(m, 1, BlockLen)),
                    SubSeq(m, BlockLen + 1, Len(m)))

IsByteSeq(q, n) == Len(q) = n /\ \A i \in 1..n : q[i] \in 0..255

\* The native state behind handle h.
State(h) == heap[ref[h]]

\* "message digest"
MsgDigest == SubSeq(MsgLong, 1, 14)

\* The digests of RFC 1319 for "", "a", "abc" and "message digest".
KAT_empty ==
  <<"8", "3", "5", "0", "e", "5", "a", "3", "e", "2", "4", "c", "1", "5", "3", "d",
   "f", "2", "2", "7", "5", "c", "9", "f", "8", "0", "6", "9", "2", "7", "7", "3">>

KAT_a ==
  <<"3", "2", "e", "c", "0", "1", "e", "c", "4", "a", "6", "d", "a", "c", "7", "2",
   "c", "0", "a", "b", "9", "6", "f", "b", "3", "4", "c", "0", "b", "5", "d", "1">>

KAT_abc ==
  <<"d", "a", "8", "5", "3", "b", "0", "d", "3", "f", "8", "8", "d", "9", "9", "b",
   "3", "0", "2", "8", "3", "a", "6", "9", "e", "6", "d", "e", "d", "6", "b", "b">>

KAT_message_digest ==
  <<"a", "b", "4", "f", "4", "9", "6", "b", "f", "b", "2", "a", "5", "3", "0", "b",
   "2", "1", "9", "f", "f", "3", "3", "0", "3", "1", "f", "e", "0", "6", "b", "0">>

(* ------------------------------- claims ------------------------------- *)

\* C1: incremental equivalence.  Whenever an update returns, the state of
\* the object (working, checksum, buffer, totalBufferedLen) is the state of
\* a fresh object fed the concatenation of all its chunks in one absorb,
\* however the message was cut.
C1_IncrementalEquivalence ==
  last.op = "update" => State(last.h) = FreshFed(msg[last.h])

\* A message of two blocks whose last chunk was a proper part of it.
C1_Witness ==
  /\ last.op = "update"
  /\ Len(msg[last.h]) = 2 * BlockLen
  /\ Len(last.data) \in 1..(BlockLen - 1)
  /\ State(last.h) = FreshFed(msg[last.h])

\* C2: digest and hexdigest leave every hash state as it was; the bytes
\* digest returns are the bytes a second digest of the state it leaves
\* returns, and they are the digest of the bytes fed, whatever digests were
\* taken on the way.
C2_DigestLeavesState ==
  /\ [][ last'.op \in {"digest", "hexdigest"} =>
          /\ heap' = heap /\ ref' = ref /\ msg' = msg
          /\ last'.op = "digest" =>
               ret' = MD2Hash_digest(heap', ref'[last'.h]).val ]_vars
  /\ [](last.op = "digest" =>
          \E f \in {FreshFed(msg[last.h])} : ret = md2_digest(f).digest)

\* A digest of an object with a processed block and a partial buffer.
C2_Witness ==
  /\ last.op = "digest"
  /\ Len(msg[last.h]) > BlockLen
  /\ State(last.h).totalBufferedLen > 0
  /\ State(last.h) = FreshFed(msg[last.h])

\* C3: copy independence.  An update through one variable leaves the
\* object of the other variable (its original or its copy) untouched, and
\* the two never share a state.
C3_CopyIndependence ==
  [][ last'.op = "update" =>
        \A g \in Handles \ {last'.h} :
          Bound(g) => /\ ref'[g] = ref[g]
                      /\ ref'[g] # ref'[last'.h]
                      /\ heap'[ref'[g]] = heap[ref[g]] ]_vars

\* An update through one variable that completed a block while the other
\* variable holds the original or the copy.
C3_Witness ==
  /\ last.op = "update"
  /\ \A g \in Handles : Bound(g)
  /\ Len(last.data) > 0
  /\ Len(msg[last.h]) >= BlockLen
  /\ \E g \in Handles \ {last.h} : State(g) = FreshFed(msg[g])

\* C4: when copy returns, the copy has the state and the digest of its
\* original, and whatever is absorbed into it next, it digests as a fresh
\* object fed the original's bytes followed by those.
C4_CopySameState ==
  last.op = "copy" =>
    /\ State(last.h) = State(last.src)
    /\ MD2Hash_digest(heap, ref[last.h]).val
         = MD2Hash_digest(heap, ref[last.src]).val
    /\ \A x \in Data(msg[last.h]) :
         MD2Hash_digest(MD2Hash_update(heap, ref[last.h], x).heap,
                        ref[last.h]).val
           = md2_digest(FreshFed(msg[last.src] \o x)).digest

\* A copy of an object that holds a processed block and a partial buffer.
C4_Witness ==
  /\ last.op = "copy"
  /\ Len(msg[last.src]) = BlockLen + 1
  /\ State(last.h) = State(last.src)

\* C5: the known-answer vectors of RFC 1319.
C5_KnownAnswers ==
  last.op = "hexdigest" =>
    /\ msg[last.h] = <<>> => ret = KAT_empty
    /\ msg[last.h] = SubSeq(MsgABC, 1, 1) => ret = KAT_a
    /\ msg[last.h] = MsgABC => ret = KAT_abc
    /\ msg[last.h] = MsgDigest => ret = KAT_message_digest

\* hexdigest of "message digest".
C5_Witness ==
  /\ last.op = "hexdigest"
  /\ msg[last.h] = MsgDigest
  /\ ret = KAT_message_digest

\* C6: creation with initial data.  MD2Hash(d) and new(d) leave exactly
\* what MD2Hash() followed by update(d) leaves (one state, at the slot of
\* the new object, the throwaway instance released), and with no data or
\* empty data that state is all zero with nothing buffered.
C6_CreateWithData ==
  last.op \in {"init", "new"} =>
    /\ ref[last.h] = last.h
    /\ heap = MD2Hash_update(MD2Hash_init(<<>>, last.h, None).heap,
                             last.h, Bytes(last.data)).heap
    /\ ~Truthy(last.data) =>
         /\ State(last.h).working = Zeros(WorkingLen)
         /\ State(last.h).checksum = Zeros(BlockLen)
         /\ State(last.h).buffer = <<>>
         /\ State(last.h).totalBufferedLen = 0

\* new(d) with a d that fills a block and leaves a byte buffered.
C6_Witness ==
  /\ last.op = "new"
  /\ Len(Bytes(last.data)) = BlockLen + 1
  /\ State(last.h) = FreshFed(last.data)

\* C7: the padding rule.  When digest is called, the padding is padLen =
\* 16 - totalBufferedLen bytes of value padLen, padLen is in 1..16 and is
\* 16 minus the message length modulo 16 (a whole block of 16s when nothing
\* is buffered), absorbing it completes exactly one block, and the digest
\* returned is the one of the state so padded.
C7_PaddingRule ==
  last.op = "digest" =>
    /\ Len(Padding(State(last.h))) = BlockLen - State(last.h).totalBufferedLen
    /\ Len(Padding(State(last.h))) \in 1..BlockLen
    /\ Len(Padding(State(last.h))) = BlockLen - (Len(msg[last.h]) % BlockLen)
    /\ \A i \in 1..Len(Padding(State(last.h))) :
         Padding(State(last.h))[i] = Len(Padding(State(last.h)))
    /\ \E p \in {ProcessBlock([State(last.h) EXCEPT
                     !.buffer = @ \o Padding(State(last.h)),
                     !.totalBufferedLen = BlockLen])} :
         /\ Padded(State(last.h)) = p
         /\ ret = SubSeq(FinalBlock(p).working, 1, BlockLen)

\* digest of a 16-byte message: a whole block of sixteen 16s.
C7_Witness ==
  /\ last.op = "digest"
  /\ Len(msg[last.h]) = BlockLen
  /\ Padding(State(last.h)) = [i \in 1..BlockLen |-> BlockLen]

\* C8: the shape of the state.  Every hash state has totalBufferedLen in
\* 0..15, equal to the number of bytes fed modulo 16 and to the length of
\* the buffer, a working buffer of 48 bytes and a checksum of 16 bytes, and
\* an update with no bytes leaves it unchanged.
C8_StateShape ==
  \A h \in Handles :
    Bound(h) =>
      /\ State(h).totalBufferedLen \in 0..(BlockLen - 1)
      /\ State(h).totalBufferedLen = Len(msg[h]) % BlockLen
      /\ IsByteSeq(State(h).buffer, State(h).totalBufferedLen)
      /\ IsByteSeq(State(h).working, WorkingLen)
      /\ IsByteSeq(State(h).checksum, BlockLen)
      /\ MD2Hash_update(heap, ref[h], <<>>).heap = heap

\* An update with no bytes on an object with a block processed and bytes
\* buffered.
C8_Witness ==
  /\ last.op = "update"
  /\ last.data = <<>>
  /\ Len(msg[last.h]) = BlockLen + 1
  /\ State(last.h).totalBufferedLen = 1

\* C9: the checksum discipline.  The checksum of every hash state is the
\* checksum after one update per full block of the bytes fed (none for the
\* buffered rest); in digest the padding block updates the checksum of the
\* scratch clone once and the checksum block is compressed without another
\* update.
C9_ChecksumDiscipline ==
  /\ \A h \in Handles :
       Bound(h) => State(h).checksum = ChecksumFold(Zeros(BlockLen), msg[h])
  /\ last.op = "digest" =>
       /\ Padded(State(last.h)).checksum =
            Checksum(State(last.h).checksum,
                     State(last.h).buffer \o Padding(State(last.h)))
       /\ Finalized(State(last.h)).checksum = Padded(State(last.h)).checksum
       /\ \E p \in {Padded(State(last.h))} :
            ret = SubSeq(Compress(p.working, p.checksum), 1, BlockLen)

\* digest of an object with two blocks processed.
C9_Witness ==
  /\ last.op = "digest"
  /\ Len(msg[last.h]) = 2 * BlockLen
  /\ State(last.h).checksum = ChecksumFold(Zeros(BlockLen), msg[last.h])
  /\ State(last.h).checksum # Zeros(BlockLen)

\* C10: totality.  No call raises; digest returns digest_size bytes,
\* hexdigest twice as many hexadecimal digits, and an update leaves nothing
\* of its input outside the state: what is buffered is the end of the bytes
\* fed.
C10_Totality ==
  /\ err = "none"
  /\ \A h \in Handles : (last.h = h /\ last.op # "idle") => Bound(h)
  /\ last.op = "digest" => IsByteSeq(ret, digest_size)
  /\ last.op = "hexdigest" =>
       /\ Len(ret) = 2 * digest_size
       /\ \A i \in 1..Len(ret) : \E k \in 1..16 : ret[i] = HexDigits[k]
  /\ last.op = "update" =>
       State(last.h).buffer =
         SubSeq(msg[last.h],
                Len(msg[last.h]) - (Len(msg[last.h]) % BlockLen) + 1,
                Len(msg[last.h]))

\* A digest returned after updates that crossed a block boundary.
C10_Witness ==
  /\ last.op = "digest"
  /\ err = "none"
  /\ Len(msg[last.h]) = BlockLen + 1
  /\ IsByteSeq(ret, digest_size)

====
